---- MODULE Spec2Model ----
(***************************************************************************)
(* Trivia Arena: the request handlers of src/src/actions/index.ts          *)
(* (createRoom, updateRoom, upsertQuestion, listRoomQuestions, joinRoom,   *)
(* recordAnswer) over the four tables TriviaRooms, TriviaPlayers,          *)
(* TriviaQuestions and TriviaAnswers.                                      *)
(*                                                                         *)
(* A table is the sequence of its rows in insertion order.  A row id made  *)
(* by crypto.randomUUID() is the row's position in its table: fresh, never *)
(* reused, never the empty string (which is id 0 here).  An optional       *)
(* input field or a nullable column is a set with at most one element:     *)
(* {} is undefined / null, {v} is the value v.  Date columns (createdAt,   *)
(* updatedAt, joinedAt, answeredAt) carry no decision of any handler and   *)
(* are left out of the rows.                                               *)
(***************************************************************************)
EXTENDS Integers, Sequences, FiniteSets, TLC

VARIABLES rooms, players, questions, answers, response, calls

vars == <<rooms, players, questions, answers, response, calls>>
tables == <<rooms, players, questions, answers>>

(* ------------------------------ bounds -------------------------------- *)
MaxRooms == 2
MaxQuestions == 2
MaxPlayers == 2
MaxAnswers == 2

(* --------------------------- values and inputs ------------------------ *)
Users == {"u1", "u2"}
NoUser == "anonymous"
Callers == Users \cup {NoUser}

\* user.email of the session user (optional)
Email(user) == IF user = "u1" THEN {"u1@example.org"} ELSE {}

Undefined == {}
Some(v) == {v}
Val(s) == CHOOSE v \in s : TRUE
\* a ?? b
OrElse(a, b) == IF a # {} THEN Val(a) ELSE b

EmptyId == 0
\* JavaScript truthiness of an optional id string: defined and not ""
TruthyId(s) == s # {} /\ Val(s) # EmptyId

OptionKeys == {"A", "B"}

RoomIdInputs == 1..(MaxRooms + 1)
QuestionIdInputs == 1..(MaxQuestions + 1)
PlayerIdInputs == 1..(MaxPlayers + 1)

CreateRoomInputs ==
    {[name |-> "Quiz", accessCode |-> Undefined, status |-> Undefined,
      maxPlayers |-> Undefined]}

UpdateRoomInputs ==
    {[id |-> r, name |-> Undefined, accessCode |-> Undefined, status |-> s,
      maxPlayers |-> Undefined] :
        r \in RoomIdInputs, s \in {Undefined, Some("completed")}}

UpsertQuestionInputs ==
    {[roomId |-> r, id |-> i, orderIndex |-> p[1], questionText |-> "Q",
      optionA |-> Undefined, optionB |-> Undefined, optionC |-> Undefined,
      optionD |-> Undefined, correctOptionKey |-> p[2],
      timeLimitSeconds |-> Undefined] :
        r \in RoomIdInputs,
        i \in {Undefined, Some(EmptyId)} \cup {Some(q) : q \in QuestionIdInputs},
        p \in {<<1, Undefined>>, <<0, Some("A")>>}}

ListRoomQuestionsInputs == {[roomId |-> r] : r \in RoomIdInputs}

JoinRoomInputs ==
    {[roomId |-> r, displayName |-> d] :
        r \in RoomIdInputs, d \in {Undefined, Some("Ann")}}

RecordAnswerInputs ==
    {[questionId |-> q, playerId |-> p, selectedOptionKey |-> k] :
        q \in QuestionIdInputs, p \in PlayerIdInputs,
        k \in {Undefined} \cup {Some(o) : o \in OptionKeys}}

(* ------------------------------ helpers ------------------------------- *)
Rows(table) == {table[i] : i \in DOMAIN table}

\* db.update(T).set(f).where(eq(T.id, id))
\* set being the function from the rows of the table to their new value
UpdateWhereId(table, id, set) ==
    [i \in DOMAIN table |-> IF table[i].id = id THEN set[table[i]] ELSE table[i]]

Fail(op, code) == [op |-> op, code |-> code]

\* no response is pending: the client has received the last one
NoResponse == [op |-> "none", code |-> "OK"]

requireUser(caller) == caller # NoUser

\* mutant: the hostUserId condition of the where clause is missing
loadOwnedRoom_AnyUser(roomId, userId) ==
    {r \in Rows(rooms) : r.id = roomId}

loadOwnedRoom(roomId, userId) ==
    {r \in Rows(rooms) : r.id = roomId /\ r.hostUserId = userId}

Idle == [pc |-> "idle"]

(* ------------------------------ createRoom ---------------------------- *)
createRoom(caller, input) ==
    IF ~requireUser(caller)
    THEN /\ response' = Fail("createRoom", "UNAUTHORIZED")
         /\ UNCHANGED <<tables, calls>>
    ELSE LET room == [id |-> Len(rooms) + 1,
                      hostUserId |-> caller,
                      name |-> input.name,
                      accessCode |-> input.accessCode,
                      status |-> OrElse(input.status, "lobby"),
                      maxPlayers |-> input.maxPlayers]
         IN /\ Len(rooms) < MaxRooms
            /\ rooms' = Append(rooms, room)
            /\ response' = [op |-> "createRoom", code |-> "OK", room |-> room]
            /\ UNCHANGED <<players, questions, answers, calls>>

(* ------------------------------ updateRoom ---------------------------- *)
\* Object.keys(updates).length === 1: only updatedAt was set
NoChanges(input) ==
    /\ input.name = Undefined
    /\ input.accessCode = Undefined
    /\ input.status = Undefined
    /\ input.maxPlayers = Undefined

\* { ...room, ...updates }
ApplyRoomUpdates(room, input) ==
    [id |-> room.id,
     hostUserId |-> room.hostUserId,
     name |-> OrElse(input.name, room.name),
     accessCode |-> IF input.accessCode # Undefined THEN input.accessCode
                    ELSE room.accessCode,
     status |-> OrElse(input.status, room.status),
     maxPlayers |-> IF input.maxPlayers # Undefined THEN input.maxPlayers
                    ELSE room.maxPlayers]

updateRoom(caller, input) ==
    IF ~requireUser(caller)
    THEN /\ response' = Fail("updateRoom", "UNAUTHORIZED")
         /\ UNCHANGED <<tables, calls>>
    ELSE IF loadOwnedRoom(input.id, caller) = {}
    THEN /\ response' = Fail("updateRoom", "NOT_FOUND")
         /\ UNCHANGED <<tables, calls>>
    ELSE \E room \in loadOwnedRoom(input.id, caller) :
         IF NoChanges(input)
         THEN /\ response' = Fail("updateRoom", "BAD_REQUEST")
              /\ UNCHANGED <<tables, calls>>
         ELSE /\ rooms' = UpdateWhereId(rooms, room.id,
                              [r \in Rows(rooms) |-> ApplyRoomUpdates(r, input)])
              /\ response' = [op |-> "updateRoom", code |-> "OK",
                              room |-> ApplyRoomUpdates(room, input)]
              /\ UNCHANGED <<players, questions, answers, calls>>

(* ------------------------------ upsertQuestion ------------------------ *)
\* { ...existing, ...questionPayload } and { id, ...questionPayload }
QuestionRow(id, input) ==
    [id |-> id,
     roomId |-> input.roomId,
     orderIndex |-> input.orderIndex,
     questionText |-> input.questionText,
     optionA |-> input.optionA,
     optionB |-> input.optionB,
     optionC |-> input.optionC,
     optionD |-> input.optionD,
     correctOptionKey |-> input.correctOptionKey,
     timeLimitSeconds |-> input.timeLimitSeconds]

QuestionsById(id) == {q \in Rows(questions) : q.id = id}

upsertQuestion(caller, input) ==
    IF ~requireUser(caller)
    THEN /\ response' = Fail("upsertQuestion", "UNAUTHORIZED")
         /\ UNCHANGED <<tables, calls>>
    ELSE IF loadOwnedRoom(input.roomId, caller) = {}
    THEN /\ response' = Fail("upsertQuestion", "NOT_FOUND")
         /\ UNCHANGED <<tables, calls>>
    ELSE IF TruthyId(input.id)
    THEN IF QuestionsById(Val(input.id)) = {}
         THEN /\ response' = Fail("upsertQuestion", "NOT_FOUND")
              /\ UNCHANGED <<tables, calls>>
         ELSE \E existing \in QuestionsById(Val(input.id)) :
              IF existing.roomId # input.roomId
              THEN /\ response' = Fail("upsertQuestion", "FORBIDDEN")
                   /\ UNCHANGED <<tables, calls>>
              ELSE /\ questions' = UpdateWhereId(questions, Val(input.id),
                                       [q \in Rows(questions) |->
                                           QuestionRow(q.id, input)])
                   /\ response' = [op |-> "upsertQuestion", code |-> "OK",
                                   question |-> QuestionRow(existing.id, input)]
                   /\ UNCHANGED <<rooms, players, answers, calls>>
    ELSE /\ Len(questions) < MaxQuestions
         /\ questions' = Append(questions, QuestionRow(Len(questions) + 1, input))
         /\ response' = [op |-> "upsertQuestion", code |-> "OK",
                         question |-> QuestionRow(Len(questions) + 1, input)]
         /\ UNCHANGED <<rooms, players, answers, calls>>

(* ------------------------------ listRoomQuestions --------------------- *)
\* the orderings of the rows S that are ascending in orderIndex
OrderByOrderIndex(S) ==
    {s \in [1..Cardinality(S) -> S] :
        /\ \A i, j \in DOMAIN s : i # j => s[i] # s[j]
        /\ \A i, j \in DOMAIN s : i < j => s[i].orderIndex <= s[j].orderIndex}

listRoomQuestions(caller, input) ==
    IF ~requireUser(caller)
    THEN /\ response' = Fail("listRoomQuestions", "UNAUTHORIZED")
         /\ UNCHANGED <<tables, calls>>
    ELSE IF loadOwnedRoom(input.roomId, caller) = {}
    THEN /\ response' = Fail("listRoomQuestions", "NOT_FOUND")
         /\ UNCHANGED <<tables, calls>>
    ELSE \E items \in OrderByOrderIndex(
                {q \in Rows(questions) : q.roomId = input.roomId}) :
         /\ response' = [op |-> "listRoomQuestions", code |-> "OK",
                         items |-> items, total |-> Len(items)]
         /\ UNCHANGED <<tables, calls>>

(* ------------------------------ joinRoom ------------------------------ *)
RoomsById(id) == {r \in Rows(rooms) : r.id = id}

\* mutant: the userId condition of the where clause is missing
PlayersOf_AnyUser(roomId, userId) ==
    {p \in Rows(players) : p.roomId = roomId}

PlayersOf(roomId, userId) ==
    {p \in Rows(players) : p.roomId = roomId /\ p.userId = userId}

NewPlayer(caller, input) ==
    [id |-> Len(players) + 1,
     roomId |-> input.roomId,
     userId |-> caller,
     displayName |-> OrElse(input.displayName, OrElse(Email(caller), "Player")),
     totalScore |-> 0]

joinRoom(caller, input) ==
    IF ~requireUser(caller)
    THEN /\ response' = Fail("joinRoom", "UNAUTHORIZED")
         /\ UNCHANGED <<tables, calls>>
    ELSE IF RoomsById(input.roomId) = {}
    THEN /\ response' = Fail("joinRoom", "NOT_FOUND")
         /\ UNCHANGED <<tables, calls>>
    ELSE IF PlayersOf(input.roomId, caller) # {}
    THEN \E existing \in PlayersOf(input.roomId, caller) :
         /\ response' = [op |-> "joinRoom", code |-> "OK", player |-> existing]
         /\ UNCHANGED <<tables, calls>>
    ELSE /\ Len(players) < MaxPlayers
         /\ players' = Append(players, NewPlayer(caller, input))
         /\ response' = [op |-> "joinRoom", code |-> "OK",
                         player |-> NewPlayer(caller, input)]
         /\ UNCHANGED <<rooms, questions, answers, calls>>

(* ------------------------------ recordAnswer -------------------------- *)
PlayersById(id) == {p \in Rows(players) : p.id = id}

ExistingAnswers(input) ==
    {a \in Rows(answers) :
        a.questionId = input.questionId /\ a.playerId = input.playerId}

\* mutant: the room comparison is missing
SameRoom_Unchecked(player, question) == TRUE

SameRoom(player, question) == player.roomId = question.roomId

\* mutant: any signed-in user passes the permission check
MayRecord_AnyUser(caller, room, player) == caller \in Users

MayRecord(caller, room, player) ==
    LET isOwner == room.hostUserId = caller
        isPlayerUser == player.userId = caller
    IN isOwner \/ isPlayerUser

\* mutant: the selected key is not compared with the correct key
IsCorrect_AnySelection(input, question) ==
    /\ input.selectedOptionKey # Undefined
    /\ question.correctOptionKey # {}

IsCorrect(input, question) ==
    /\ input.selectedOptionKey # Undefined
    /\ question.correctOptionKey # {}
    /\ input.selectedOptionKey = question.correctOptionKey

NewScore(isCorrect) == IF isCorrect THEN 10 ELSE 0

\* existingAnswer?.scoreAwarded ?? 0, existing being {} or {existingAnswer}
PreviousScore(existing) ==
    IF existing = {} THEN 0 ELSE Val(existing).scoreAwarded

AnswerRow(id, input, isCorrect) ==
    [id |-> id,
     questionId |-> input.questionId,
     playerId |-> input.playerId,
     selectedOptionKey |-> input.selectedOptionKey,
     isCorrect |-> isCorrect,
     scoreAwarded |-> NewScore(isCorrect)]

\* mutant: a row is inserted even when one exists
WriteAnswer_AlwaysInsert(existing, input, isCorrect) ==
    Append(answers, AnswerRow(Len(answers) + 1, input, isCorrect))

\* the answers table after the update (existing = {row}) or insert (existing = {})
WriteAnswer(existing, input, isCorrect) ==
    IF existing # {}
    THEN UpdateWhereId(answers, Val(existing).id,
             [a \in Rows(answers) |->
                 [a EXCEPT !.selectedOptionKey = input.selectedOptionKey,
                           !.isCorrect = isCorrect,
                           !.scoreAwarded = NewScore(isCorrect)]])
    ELSE Append(answers, AnswerRow(Len(answers) + 1, input, isCorrect))

AnswerId(existing) == IF existing # {} THEN Val(existing).id ELSE Len(answers) + 1

\* mutant: the previous score of a re-answered question is not taken off
WriteTotalScore_NoSubtract(player, previousScore, newScore) ==
    UpdateWhereId(players, player.id,
        [p \in Rows(players) |->
            [p EXCEPT !.totalScore = player.totalScore + newScore]])

\* the players table after set({ totalScore: player.totalScore - previousScore + newScore })
WriteTotalScore(player, previousScore, newScore) ==
    UpdateWhereId(players, player.id,
        [p \in Rows(players) |->
            [p EXCEPT !.totalScore =
                player.totalScore - previousScore + newScore]])

\* the row selected by .limit(1): any matching row, or none
Limit1(S) == IF S = {} THEN {{}} ELSE {{x} : x \in S}

recordAnswer(caller, input) ==
    IF ~requireUser(caller)
    THEN /\ response' = Fail("recordAnswer", "UNAUTHORIZED")
         /\ UNCHANGED <<tables, calls>>
    ELSE IF QuestionsById(input.questionId) = {}
    THEN /\ response' = Fail("recordAnswer", "NOT_FOUND")
         /\ UNCHANGED <<tables, calls>>
    ELSE IF PlayersById(input.playerId) = {}
    THEN /\ response' = Fail("recordAnswer", "NOT_FOUND")
         /\ UNCHANGED <<tables, calls>>
    ELSE \E question \in QuestionsById(input.questionId),
            player \in PlayersById(input.playerId) :
         IF ~SameRoom(player, question)
         THEN /\ response' = Fail("recordAnswer", "BAD_REQUEST")
              /\ UNCHANGED <<tables, calls>>
         ELSE IF RoomsById(question.roomId) = {}
         THEN /\ response' = Fail("recordAnswer", "NOT_FOUND")
              /\ UNCHANGED <<tables, calls>>
         ELSE \E room \in RoomsById(question.roomId) :
              IF ~MayRecord(caller, room, player)
              THEN /\ response' = Fail("recordAnswer", "FORBIDDEN")
                   /\ UNCHANGED <<tables, calls>>
              ELSE \E existing \in Limit1(ExistingAnswers(input)) :
                   LET isCorrect == IsCorrect(input, question)
                   IN /\ existing = {} => Len(answers) < MaxAnswers
                      /\ answers' = WriteAnswer(existing, input, isCorrect)
                      /\ players' = WriteTotalScore(player,
                                        PreviousScore(existing), NewScore(isCorrect))
                      /\ response' = [op |-> "recordAnswer", code |-> "OK",
                                      answer |-> AnswerRow(AnswerId(existing),
                                                           input, isCorrect)]
                      /\ UNCHANGED <<rooms, questions, calls>>

(* ------------------------------ specifications ----------------------- *)
Init ==
    /\ rooms = <<>>
    /\ players = <<>>
    /\ questions = <<>>
    /\ answers = <<>>
    /\ response = NoResponse
    /\ calls = [c \in {1, 2} |-> Idle]

\* The requests of a client that sends one request at a time: every signed-in
\* user with every input of S, and one request without a session.
Requests(S) ==
    {<<caller, input>> : caller \in Users, input \in S}
        \cup {<<NoUser, CHOOSE input \in S : TRUE>>}

Ready == response = NoResponse

\* the handler's return value (or thrown ActionError) reaches the client
Deliver ==
    /\ ~Ready
    /\ response' = NoResponse
    /\ UNCHANGED <<tables, calls>>

(* ------------------ interleaved recordAnswer and joinRoom -------------- *)
(* Two calls in flight, each a recordAnswer or a joinRoom, advancing one    *)
(* awaited database statement at a time.  calls[c] holds the call's         *)
(* position (pc), its session user and input, and the rows it has read.     *)
(* The rooms, questions and players they work on are set up beforehand by   *)
(* uninterleaved requests; each call runs once.                             *)
CallIds == DOMAIN calls

NoCallStarted == \A c \in CallIds : calls[c].pc = "idle"

Finish(c, code) ==
    calls' = [calls EXCEPT ![c] = [pc |-> "done", op |-> calls[c].op,
                                   caller |-> calls[c].caller,
                                   input |-> calls[c].input, code |-> code]]

\* the handler is entered: requireUser runs before the first await
BeginCall(c, op, caller, input) ==
    /\ calls[c].pc = "idle"
    /\ Ready
    /\ calls' = [calls EXCEPT ![c] =
                    IF ~requireUser(caller)
                    THEN [pc |-> "done", op |-> op, caller |-> caller,
                          input |-> input, code |-> "UNAUTHORIZED"]
                    ELSE [pc |-> IF op = "recordAnswer" THEN "selectQuestion"
                                 ELSE "selectRoom",
                          op |-> op, caller |-> caller, input |-> input]]
    /\ UNCHANGED <<tables, response>>

\* const [question] = await db.select().from(TriviaQuestions)...
SelectQuestion(c) ==
    /\ calls[c].pc = "selectQuestion"
    /\ IF QuestionsById(calls[c].input.questionId) = {}
       THEN Finish(c, "NOT_FOUND")
       ELSE \E question \in QuestionsById(calls[c].input.questionId) :
            calls' = [calls EXCEPT ![c] =
                        [pc |-> "selectPlayer", op |-> calls[c].op,
                         caller |-> calls[c].caller, input |-> calls[c].input,
                         question |-> question]]
    /\ UNCHANGED <<tables, response>>

\* const [player] = await db.select().from(TriviaPlayers)..., then the room check
SelectPlayer(c) ==
    /\ calls[c].pc = "selectPlayer"
    /\ IF PlayersById(calls[c].input.playerId) = {}
       THEN Finish(c, "NOT_FOUND")
       ELSE \E player \in PlayersById(calls[c].input.playerId) :
            IF ~SameRoom(player, calls[c].question)
            THEN Finish(c, "BAD_REQUEST")
            ELSE calls' = [calls EXCEPT ![c] =
                        [pc |-> "selectRoomOfQuestion", op |-> calls[c].op,
                         caller |-> calls[c].caller, input |-> calls[c].input,
                         question |-> calls[c].question, player |-> player]]
    /\ UNCHANGED <<tables, response>>

\* const [room] = await db.select().from(TriviaRooms)..., then the permission check
SelectRoomOfQuestion(c) ==
    /\ calls[c].pc = "selectRoomOfQuestion"
    /\ IF RoomsById(calls[c].question.roomId) = {}
       THEN Finish(c, "NOT_FOUND")
       ELSE \E room \in RoomsById(calls[c].question.roomId) :
            IF ~MayRecord(calls[c].caller, room, calls[c].player)
            THEN Finish(c, "FORBIDDEN")
            ELSE calls' = [calls EXCEPT ![c].pc = "selectExistingAnswer"]
    /\ UNCHANGED <<tables, response>>

\* const [existingAnswer] = await db.select().from(TriviaAnswers)...
SelectExistingAnswer(c) ==
    /\ calls[c].pc = "selectExistingAnswer"
    /\ \E existing \in Limit1(ExistingAnswers(calls[c].input)) :
          calls' = [calls EXCEPT ![c] =
                      [pc |-> "writeAnswer", op |-> calls[c].op,
                       caller |-> calls[c].caller, input |-> calls[c].input,
                       question |-> calls[c].question,
                       player |-> calls[c].player, existing |-> existing]]
    /\ UNCHANGED <<tables, response>>

\* await db.update(TriviaAnswers)... or await db.insert(TriviaAnswers)...
WriteAnswerStep(c) ==
    /\ calls[c].pc = "writeAnswer"
    /\ calls[c].existing = {} => Len(answers) < MaxAnswers
    /\ answers' = WriteAnswer(calls[c].existing, calls[c].input,
                              IsCorrect(calls[c].input, calls[c].question))
    /\ calls' = [calls EXCEPT ![c].pc = "writeTotalScore"]
    /\ UNCHANGED <<rooms, players, questions, response>>

\* await db.update(TriviaPlayers).set({ totalScore: ... })
WriteTotalScoreStep(c) ==
    /\ calls[c].pc = "writeTotalScore"
    /\ players' = WriteTotalScore(calls[c].player,
                      PreviousScore(calls[c].existing),
                      NewScore(IsCorrect(calls[c].input, calls[c].question)))
    /\ Finish(c, "OK")
    /\ UNCHANGED <<rooms, questions, answers, response>>

\* joinRoom: const [room] = await db.select().from(TriviaRooms)...
SelectRoom(c) ==
    /\ calls[c].pc = "selectRoom"
    /\ IF RoomsById(calls[c].input.roomId) = {}
       THEN Finish(c, "NOT_FOUND")
       ELSE calls' = [calls EXCEPT ![c].pc = "selectExistingPlayer"]
    /\ UNCHANGED <<tables, response>>

\* joinRoom: const [existing] = await db.select().from(TriviaPlayers)...
SelectExistingPlayer(c) ==
    /\ calls[c].pc = "selectExistingPlayer"
    /\ IF PlayersOf(calls[c].input.roomId, calls[c].caller) # {}
       THEN Finish(c, "OK")
       ELSE calls' = [calls EXCEPT ![c].pc = "insertPlayer"]
    /\ UNCHANGED <<tables, response>>

\* joinRoom: await db.insert(TriviaPlayers).values(player)
InsertPlayer(c) ==
    /\ calls[c].pc = "insertPlayer"
    /\ Len(players) < MaxPlayers
    /\ players' = Append(players, NewPlayer(calls[c].caller, calls[c].input))
    /\ Finish(c, "OK")
    /\ UNCHANGED <<rooms, questions, answers, response>>

CreateRoom ==
    Ready /\ \E r \in Requests(CreateRoomInputs) : createRoom(r[1], r[2])

UpdateRoom ==
    Ready /\ \E r \in Requests(UpdateRoomInputs) : updateRoom(r[1], r[2])

UpsertQuestion ==
    Ready /\ \E r \in Requests(UpsertQuestionInputs) : upsertQuestion(r[1], r[2])

ListRoomQuestions ==
    Ready /\ \E r \in Requests(ListRoomQuestionsInputs) :
                listRoomQuestions(r[1], r[2])

JoinRoom ==
    Ready /\ \E r \in Requests(JoinRoomInputs) : joinRoom(r[1], r[2])

\* joinRoom without a displayName
JoinRoomPlain ==
    Ready /\ \E r \in Requests({i \in JoinRoomInputs : i.displayName = Undefined}) :
                joinRoom(r[1], r[2])

RecordAnswer ==
    Ready /\ \E r \in Requests(RecordAnswerInputs) : recordAnswer(r[1], r[2])

\* the answer-recording workflow: rooms, questions, players, answers
NextAnswers ==
    CreateRoom \/ UpsertQuestion \/ JoinRoomPlain \/ RecordAnswer \/ Deliver

SpecAnswers == Init /\ [][NextAnswers]_vars

\* every handler; answers are recorded with option A only
RecordAnswerA ==
    Ready /\ \E r \in Requests({i \in RecordAnswerInputs :
                                    i.selectedOptionKey = Some("A")}) :
                recordAnswer(r[1], r[2])

NextRooms ==
    \/ CreateRoom
    \/ UpdateRoom
    \/ UpsertQuestion
    \/ ListRoomQuestions
    \/ JoinRoomPlain
    \/ RecordAnswerA
    \/ Deliver

SpecRooms == Init /\ [][NextRooms]_vars

\* requests that set the scene for the interleaved calls, none in flight
SetUp ==
    /\ NoCallStarted
    /\ Ready
    /\ \/ \E input \in CreateRoomInputs : createRoom("u1", input)
       \/ \E input \in UpsertQuestionInputs :
             /\ input.id = Undefined
             /\ input.correctOptionKey = Some("A")
             /\ upsertQuestion("u1", input)
       \/ \E caller \in Users, input \in JoinRoomInputs :
             /\ input.displayName = Undefined
             /\ joinRoom(caller, input)

InterleavedAnswerInputs ==
    {i \in RecordAnswerInputs :
        i.playerId = 1 /\ i.selectedOptionKey # Undefined}

InterleavedJoinInputs ==
    {i \in JoinRoomInputs : i.roomId = 1 /\ i.displayName = Undefined}

Begin ==
    \E c \in CallIds :
        \/ \E r \in Requests(InterleavedAnswerInputs) :
              BeginCall(c, "recordAnswer", r[1], r[2])
        \/ \E r \in Requests(InterleavedJoinInputs) :
              BeginCall(c, "joinRoom", r[1], r[2])

NextInterleaved ==
    \/ SetUp
    \/ Deliver
    \/ Begin
    \/ \E c \in CallIds : SelectQuestion(c)
    \/ \E c \in CallIds : SelectPlayer(c)
    \/ \E c \in CallIds : SelectRoomOfQuestion(c)
    \/ \E c \in CallIds : SelectExistingAnswer(c)
    \/ \E c \in CallIds : WriteAnswerStep(c)
    \/ \E c \in CallIds : WriteTotalScoreStep(c)
    \/ \E c \in CallIds : SelectRoom(c)
    \/ \E c \in CallIds : SelectExistingPlayer(c)
    \/ \E c \in CallIds : InsertPlayer(c)

SpecInterleaved == Init /\ [][NextInterleaved]_vars

\* rooms and their players
NextJoin == CreateRoom \/ JoinRoom \/ Deliver

SpecJoin == Init /\ [][NextJoin]_vars

(* ------------------------------ properties ---------------------------- *)
RECURSIVE SumScoreAwarded(_, _)
\* the sum of scoreAwarded over the first n answer rows of player playerId
SumScoreAwarded(playerId, n) ==
    IF n = 0 THEN 0
    ELSE (IF answers[n].playerId = playerId THEN answers[n].scoreAwarded ELSE 0)
             + SumScoreAwarded(playerId, n - 1)

IsHost(user, roomId) ==
    \E i \in DOMAIN rooms : rooms[i].id = roomId /\ rooms[i].hostUserId = user

\* C1: every player's totalScore is the sum of scoreAwarded over the answer
\* rows of that player (0 without answers), when calls do not interleave.
C1_ScoreIsSumOfAnswers ==
    \A i \in DOMAIN players :
        players[i].totalScore = SumScoreAwarded(players[i].id, Len(answers))

\* a re-answer (the returned row is not the newest one) scoring 0 for a player
\* who keeps 10 points from another answer
C1_Witness ==
    /\ response.op = "recordAnswer" /\ response.code = "OK"
    /\ response.answer.id < Len(answers)
    /\ response.answer.scoreAwarded = 0
    /\ \E i \in DOMAIN players :
          /\ players[i].id = response.answer.playerId
          /\ players[i].totalScore = 10

AnswerPairUnique ==
    \A i, j \in DOMAIN answers :
        (answers[i].questionId = answers[j].questionId
            /\ answers[i].playerId = answers[j].playerId) => i = j

\* what a successful recordAnswer(input) does to the answers table
UpsertsAnswer(input) ==
    LET old == {i \in DOMAIN answers :
                    answers[i].questionId = input.questionId
                        /\ answers[i].playerId = input.playerId}
    IN IF old = {}
       THEN /\ Len(answers') = Len(answers) + 1
            /\ \A i \in DOMAIN answers : answers'[i] = answers[i]
            /\ \A i \in DOMAIN answers : answers[i].id # answers'[Len(answers')].id
            /\ answers'[Len(answers')].questionId = input.questionId
            /\ answers'[Len(answers')].playerId = input.playerId
            /\ answers'[Len(answers')].selectedOptionKey = input.selectedOptionKey
            /\ response'.answer = answers'[Len(answers')]
       ELSE /\ Len(answers') = Len(answers)
            /\ \A i \in DOMAIN answers :
                  IF i \in old
                  THEN /\ answers'[i].id = answers[i].id
                       /\ answers'[i].questionId = answers[i].questionId
                       /\ answers'[i].playerId = answers[i].playerId
                       /\ answers'[i].selectedOptionKey = input.selectedOptionKey
                       /\ answers'[i].isCorrect = response'.answer.isCorrect
                       /\ answers'[i].scoreAwarded = response'.answer.scoreAwarded
                       /\ response'.answer.id = answers[i].id
                  ELSE answers'[i] = answers[i]

\* C2: at most one answer row per (questionId, playerId); the first successful
\* recordAnswer for a pair inserts a row with a fresh id, a later one updates
\* that row in place, keeps its id and the number of rows.
C2_UpsertOrUpdate ==
    /\ []AnswerPairUnique
    /\ [][response' = response \/ response'.op # "recordAnswer"
            \/ response'.code # "OK"
            \/ \A caller \in Users, input \in RecordAnswerInputs :
                  recordAnswer(caller, input) => UpsertsAnswer(input)]_vars

\* the first of two answer rows has just been re-answered with another option
C2_Witness ==
    /\ Len(answers) = 2
    /\ response.op = "recordAnswer" /\ response.code = "OK"
    /\ response.answer = answers[1]
    /\ response.answer.selectedOptionKey = Some("B")
    /\ response.answer.isCorrect = FALSE

\* C3: for an existing question and an existing player of the same room,
\* recordAnswer succeeds only for the room's host or the player's own user; any
\* other signed-in caller gets FORBIDDEN and answers and scores stay as they are.
C3_Authorization ==
    [][response' = response \/ response'.op # "recordAnswer"
        \/ \A q \in DOMAIN questions, p \in DOMAIN players :
            players[p].roomId = questions[q].roomId =>
              \A caller \in Users, input \in RecordAnswerInputs :
                (input.questionId = questions[q].id
                    /\ input.playerId = players[p].id) =>
                  IF IsHost(caller, questions[q].roomId)
                        \/ players[p].userId = caller
                  THEN response'.code = "FORBIDDEN"
                          => ~recordAnswer(caller, input)
                  ELSE \/ /\ response' = Fail("recordAnswer", "FORBIDDEN")
                          /\ answers' = answers
                          /\ players' = players
                       \/ ~recordAnswer(caller, input)]_vars

\* a recordAnswer was refused although answers exist
C3_Witness ==
    /\ response = Fail("recordAnswer", "FORBIDDEN")
    /\ Len(answers) > 0

\* the scoring rule, from the request and the question as it is at the call
ExpectedScore(input, q) ==
    IF /\ input.selectedOptionKey # Undefined
       /\ questions[q].correctOptionKey # {}
       /\ input.selectedOptionKey = questions[q].correctOptionKey
    THEN 10 ELSE 0

\* C5: a successful recordAnswer stores and returns scoreAwarded 10 exactly when
\* an option was selected, the question has a correct key and the two are equal,
\* else 0; in every row isCorrect holds iff scoreAwarded is 10.
C5_ScoringRule ==
    /\ [](\A i \in DOMAIN answers :
            /\ answers[i].scoreAwarded \in {0, 10}
            /\ answers[i].isCorrect <=> (answers[i].scoreAwarded = 10))
    /\ [][response' = response \/ response'.op # "recordAnswer"
            \/ response'.code # "OK"
            \/ \A caller \in Users, input \in RecordAnswerInputs :
            \A q \in DOMAIN questions :
              (/\ questions[q].id = input.questionId
               /\ recordAnswer(caller, input))
              => /\ response'.answer.scoreAwarded = ExpectedScore(input, q)
                 /\ \E i \in DOMAIN answers' :
                       /\ answers'[i].id = response'.answer.id
                       /\ answers'[i].scoreAwarded = ExpectedScore(input, q)]_vars

\* rows with 10 points, with 0 points for a wrong option, and with 0 points
\* although the option is now the question's correct key
C5_Witness ==
    /\ \E i \in DOMAIN answers : answers[i].scoreAwarded = 10
    /\ \E i \in DOMAIN answers, q \in DOMAIN questions :
          /\ answers[i].questionId = questions[q].id
          /\ answers[i].scoreAwarded = 0
          /\ answers[i].selectedOptionKey = questions[q].correctOptionKey
          /\ answers[i].selectedOptionKey # {}

AnswersLinkSameRoom ==
    \A a \in DOMAIN answers :
        /\ \E q \in DOMAIN questions : questions[q].id = answers[a].questionId
        /\ \E p \in DOMAIN players : players[p].id = answers[a].playerId
        /\ \A q \in DOMAIN questions, p \in DOMAIN players :
              (questions[q].id = answers[a].questionId
                  /\ players[p].id = answers[a].playerId)
                  => questions[q].roomId = players[p].roomId

\* no step moves a question or a player to another room (or drops one)
RowsKeepTheirRoom ==
    /\ \A q \in DOMAIN questions :
          /\ q \in DOMAIN questions'
          /\ questions'[q].id = questions[q].id
          /\ questions'[q].roomId = questions[q].roomId
    /\ \A p \in DOMAIN players :
          /\ p \in DOMAIN players'
          /\ players'[p].id = players[p].id
          /\ players'[p].roomId = players[p].roomId

\* recordAnswer for a question and a player of different rooms
CrossRoomAnswerRejected ==
    response' = response \/ response'.op # "recordAnswer"
    \/ (response' = Fail("recordAnswer", "BAD_REQUEST") /\ UNCHANGED tables)
    \/ \A q \in DOMAIN questions, p \in DOMAIN players :
         players[p].roomId # questions[q].roomId =>
           \A caller \in Users, input \in RecordAnswerInputs :
             (/\ input.questionId = questions[q].id
              /\ input.playerId = players[p].id
              /\ recordAnswer(caller, input))
             => /\ response' = Fail("recordAnswer", "BAD_REQUEST")
                /\ UNCHANGED tables

\* upsertQuestion(caller, input) naming a question of another room than
\* input.roomId fails and changes nothing: with FORBIDDEN for the host of
\* input.roomId, with codeForOthers for another signed-in caller
CrossRoomUpsertFails(codeForOthers) ==
    response' = response \/ response'.op # "upsertQuestion"
    \/ \A q \in DOMAIN questions :
         \A caller \in Users, input \in UpsertQuestionInputs :
           (/\ input.id = Some(questions[q].id)
            /\ questions[q].roomId # input.roomId)
           => \/ /\ response' = Fail("upsertQuestion",
                                    IF IsHost(caller, input.roomId)
                                    THEN "FORBIDDEN" ELSE codeForOthers)
                 /\ UNCHANGED tables
              \/ ~upsertQuestion(caller, input)

\* C6 as stated: every answer row links a question and a player of one room;
\* recordAnswer across rooms is rejected with BAD_REQUEST and changes nothing; no
\* step moves a question or player to another room; upsertQuestion with the id
\* of another room's question fails with FORBIDDEN and changes nothing.
C6_Original ==
    /\ []AnswersLinkSameRoom
    /\ [][RowsKeepTheirRoom]_vars
    /\ [][CrossRoomAnswerRejected]_vars
    /\ [][CrossRoomUpsertFails("FORBIDDEN")]_vars

\* C6 amended: as C6, but the upsertQuestion naming another room's question
\* fails with FORBIDDEN only when the signed-in caller hosts input.roomId, and
\* with NOT_FOUND when the caller does not (in both cases nothing changes).
C6_AnswersStayInOneRoom ==
    /\ []AnswersLinkSameRoom
    /\ [][RowsKeepTheirRoom]_vars
    /\ [][CrossRoomAnswerRejected]_vars
    /\ [][CrossRoomUpsertFails("NOT_FOUND")]_vars

\* answers exist, and a recordAnswer across rooms has just been rejected
C6_Witness ==
    /\ response = Fail("recordAnswer", "BAD_REQUEST")
    /\ Len(answers) > 0
    /\ \E q \in DOMAIN questions, p \in DOMAIN players :
          questions[q].roomId # players[p].roomId

PlayerPairUnique ==
    \A i, j \in DOMAIN players :
        (players[i].roomId = players[j].roomId
            /\ players[i].userId = players[j].userId) => i = j

\* what joinRoom(caller, input) does to the players table and returns
JoinsOnce(caller, input) ==
    IF \A r \in DOMAIN rooms : rooms[r].id # input.roomId
    THEN /\ response' = Fail("joinRoom", "NOT_FOUND")
         /\ players' = players
    ELSE IF \E i \in DOMAIN players :
                players[i].roomId = input.roomId /\ players[i].userId = caller
    THEN /\ players' = players
         /\ response'.code = "OK"
         /\ \E i \in DOMAIN players :
               /\ players[i].roomId = input.roomId
               /\ players[i].userId = caller
               /\ response'.player = players[i]
    ELSE /\ Len(players') = Len(players) + 1
         /\ \A i \in DOMAIN players : players'[i] = players[i]
         /\ players'[Len(players')].roomId = input.roomId
         /\ players'[Len(players')].userId = caller
         /\ players'[Len(players')].totalScore = 0
         /\ response'.code = "OK"
         /\ response'.player = players'[Len(players')]

\* C7: at most one player row per (roomId, userId); the first joinRoom of a
\* user for a room inserts a player with totalScore 0, a later one inserts
\* nothing, changes nothing and returns the existing player; joinRoom for a
\* room that does not exist fails with NOT_FOUND and inserts nothing.
C7_JoinIdempotent ==
    /\ []PlayerPairUnique
    /\ [][response' = response \/ response'.op # "joinRoom"
            \/ \A caller \in Users, input \in JoinRoomInputs :
                  joinRoom(caller, input) => JoinsOnce(caller, input)]_vars

\* a joinRoom has returned a player that is not the newest row, and whose
\* displayName is not the one a request can supply
C7_Witness ==
    /\ response.op = "joinRoom" /\ response.code = "OK"
    /\ response.player.id < Len(players)
    /\ response.player.displayName # "Ann"

\* no step changes the host of a room (or drops a room)
HostNeverChanges ==
    \A r \in DOMAIN rooms :
        /\ r \in DOMAIN rooms'
        /\ rooms'[r].id = rooms[r].id
        /\ rooms'[r].hostUserId = rooms[r].hostUserId

\* createRoom makes the caller the host
CreatorIsHost ==
    response' = response \/ response'.op # "createRoom" \/ response'.code # "OK"
    \/ \A caller \in Users, input \in CreateRoomInputs :
          createRoom(caller, input)
              => /\ Len(rooms') = Len(rooms) + 1
                 /\ rooms'[Len(rooms')].hostUserId = caller

\* updateRoom, upsertQuestion, listRoomQuestions by a user who is not the host
NonHostGetsNotFound ==
    /\ response' = response \/ response'.op # "updateRoom"
       \/ (response' = Fail("updateRoom", "NOT_FOUND") /\ UNCHANGED <<rooms, questions>>)
       \/ \A caller \in Users, input \in UpdateRoomInputs :
             ~IsHost(caller, input.id) => ~updateRoom(caller, input)
    /\ response' = response \/ response'.op # "upsertQuestion"
       \/ (response' = Fail("upsertQuestion", "NOT_FOUND") /\ UNCHANGED <<rooms, questions>>)
       \/ \A caller \in Users, input \in UpsertQuestionInputs :
             ~IsHost(caller, input.roomId) => ~upsertQuestion(caller, input)
    /\ response' = response \/ response'.op # "listRoomQuestions"
       \/ (response' = Fail("listRoomQuestions", "NOT_FOUND") /\ UNCHANGED <<rooms, questions>>)
       \/ \A caller \in Users, input \in ListRoomQuestionsInputs :
             ~IsHost(caller, input.roomId) => ~listRoomQuestions(caller, input)

\* C8: updateRoom, upsertQuestion and listRoomQuestions by a signed-in user who
\* is not the host of the named room (or naming no room) fail with NOT_FOUND and
\* leave rooms and questions unchanged; createRoom makes its caller the host
\* and no step changes a room's hostUserId afterwards.
C8_OnlyHostChangesRoom ==
    /\ [][HostNeverChanges]_vars
    /\ [][CreatorIsHost]_vars
    /\ [][NonHostGetsNotFound]_vars

\* a room was completed by its host, has a question and an answer, and an
\* upsertQuestion was then refused with NOT_FOUND
C8_Witness ==
    /\ response = Fail("upsertQuestion", "NOT_FOUND")
    /\ \E r \in DOMAIN rooms : rooms[r].status = "completed"
    /\ Len(questions) > 0
    /\ Len(answers) > 0

BothDone(op) == \A c \in CallIds : calls[c].pc = "done" /\ calls[c].op = op

\* C4 as stated: once two interleaved recordAnswer calls for the same player
\* have completed, that player's totalScore is non-negative and equals the sum
\* of scoreAwarded over the player's answer rows.
C4_Original ==
    (BothDone("recordAnswer") /\ calls[1].input.playerId = calls[2].input.playerId)
        => \A i \in DOMAIN players :
              players[i].id = calls[1].input.playerId
                  => /\ players[i].totalScore >= 0
                     /\ players[i].totalScore =
                            SumScoreAwarded(players[i].id, Len(answers))

\* C9 as stated: once two interleaved recordAnswer calls for the same
\* (questionId, playerId), or two interleaved joinRoom calls of the same user
\* for the same room, have completed, there is at most one answer row for that
\* pair and at most one player row for that (roomId, userId).
C9_Original ==
    /\ (BothDone("recordAnswer") /\ calls[1].input = calls[2].input)
          => Cardinality({i \in DOMAIN answers :
                            /\ answers[i].questionId = calls[1].input.questionId
                            /\ answers[i].playerId = calls[1].input.playerId}) <= 1
    /\ (BothDone("joinRoom") /\ calls[1].input.roomId = calls[2].input.roomId
            /\ calls[1].caller = calls[2].caller)
          => Cardinality({i \in DOMAIN players :
                            /\ players[i].roomId = calls[1].input.roomId
                            /\ players[i].userId = calls[1].caller}) <= 1
====
